---- MODULE Spec2Model ----
(***************************************************************************)
(* State-machine model of the SEIR outbreak simulator                      *)
(* (SIER Model/SIER_Model.py, class DiseaseOutbreakSimulation):            *)
(* construction and validation, the SEIR derivative and its integration    *)
(* over the day grid, the expansion of the infected curve into patient     *)
(* records, and the rejection sampler for patient locations;               *)
(* and of the weather generator (weather model/model.py, class             *)
(* WeatherDataGenerator): the season of a date and the hourly records.     *)
(*                                                                         *)
(* Numbers.  Python floats are modelled in fixed point:                    *)
(*   - compartment sizes are integers counting 1/Scale of a person;        *)
(*   - the rates beta, sigma, gamma are integers counting 1/RateDen;       *)
(*   - latitudes and longitudes count 1/10000 of a degree, distances       *)
(*     count metres.                                                       *)
(* A quotient is rounded toward zero (QDiv), which like IEEE rounding is   *)
(* symmetric in the sign of its argument.                                  *)
(***************************************************************************)
EXTENDS Integers, Sequences, FiniteSets, TLC

VARIABLES
    pc,               \* position of the caller / of the running method
    args,             \* arguments of the constructor call ("None" before it)
    self,             \* the fields of the simulation object
    seir_data,        \* run_simulation: the (t, S, E, I, R) table
    I,                \* generate_patient_data: its argument I
    day,              \* generate_patient_data: index of the enumerate loop
    new_cases,        \* generate_patient_data: new_cases of the current day
    j,                \* generate_patient_data: iterations of range(new_cases) done
    patient_counter,  \* generate_patient_data: patient_counter
    data,             \* generate_patient_data: the list of records
    cand,             \* generate_random_location: <<lat, lon>> of a failed pass, if any
    wpc,              \* WeatherDataGenerator: position of its caller / of the running method
    generator,        \* WeatherDataGenerator: start_date and duration_days of the object
    rnd,              \* the state of the random module the weather generator draws from
    wday,             \* generate_hourly_data: day of the outer loop
    whour,            \* generate_hourly_data: hour of the inner loop
    daily,            \* generate_hourly_data: the values set once per day
    wdata             \* generate_hourly_data: the list of records

\* the variables of the weather generator (weather model/model.py)
wvars == <<wpc, generator, rnd, wday, whour, daily, wdata>>

vars == <<pc, args, self, seir_data, I, day, new_cases, j, patient_counter, data, cand,
          wpc, generator, rnd, wday, whour, daily, wdata>>

(***************************************************************************)
(* Resolution of the fixed-point numbers and bounds of the inputs.         *)
(***************************************************************************)
Scale == 4            \* compartment units per person
RateDen == 4          \* rate units per 1/day
MaxN == 3             \* largest population of the validation inputs
MaxComp == 2          \* largest I0, R0, E0 of the validation inputs
MaxDays == 2          \* largest duration_days of the inputs
MaxLen == 3           \* longest I handed directly to generate_patient_data

Unset == "unset"

Abs(x) == IF x < 0 THEN -x ELSE x
Max(a, b) == IF a >= b THEN a ELSE b

\* float quotient a / b, rounded toward zero
QDiv(a, b) ==
    IF (a >= 0) = (b > 0) THEN Abs(a) \div Abs(b) ELSE -(Abs(a) \div Abs(b))

\* int(x) of a float x given in units of 1/Scale: truncation toward zero
PyInt(x) == QDiv(x, Scale)

\* round(x) of a float x given in units of 1/Scale: nearest, ties to even
PyRound(x) ==
    LET f == x \div Scale
        r == x - f * Scale
    IN  IF 2 * r < Scale THEN f
        ELSE IF 2 * r > Scale THEN f + 1
        ELSE IF f % 2 = 0 THEN f ELSE f + 1

RECURSIVE SumSeq(_)
SumSeq(s) == IF s = <<>> THEN 0 ELSE Head(s) + SumSeq(Tail(s))

(***************************************************************************)
(* DiseaseOutbreakSimulation.__init__                                      *)
(***************************************************************************)
UnsetSelf ==
    [duration_days |-> Unset, N |-> Unset, I0 |-> Unset, R0 |-> Unset, E0 |-> Unset,
     S0 |-> Unset, beta |-> Unset, sigma |-> Unset, gamma |-> Unset,
     center_lat |-> Unset, center_lon |-> Unset, radius_km |-> Unset]

\* ValidParameters with E0 left out of the sum test
ValidParameters_SumWithoutE0(a) ==
    /\ ~(a.N <= 0 \/ a.I0 < 0 \/ a.R0 < 0 \/ a.E0 < 0)
    /\ ~(a.I0 + a.R0 > a.N)

\* the two raise statements of __init__ (lines 23-26), negated
ValidParameters(a) ==
    /\ ~(a.N <= 0 \/ a.I0 < 0 \/ a.R0 < 0 \/ a.E0 < 0)
    /\ ~(a.I0 + a.R0 + a.E0 > a.N)

\* the assignments of __init__ (lines 28-41)
\* InitFields with a susceptible count that forgets the exposed
InitFields_S0WithoutE0(a) ==
    [duration_days |-> a.duration_days, N |-> a.N, I0 |-> a.I0, R0 |-> a.R0,
     E0 |-> a.E0, S0 |-> a.N - a.I0 - a.R0,
     beta |-> a.beta, sigma |-> a.sigma, gamma |-> a.gamma,
     center_lat |-> a.center_lat, center_lon |-> a.center_lon,
     radius_km |-> a.radius_km]

InitFields(a) ==
    [duration_days |-> a.duration_days, N |-> a.N, I0 |-> a.I0, R0 |-> a.R0,
     E0 |-> a.E0, S0 |-> a.N - a.I0 - a.R0 - a.E0,
     beta |-> a.beta, sigma |-> a.sigma, gamma |-> a.gamma,
     center_lat |-> a.center_lat, center_lon |-> a.center_lon,
     radius_km |-> a.radius_km]

\* the defaults of __init__, scaled to the model's population bounds
\* (rates 2/4, 1/4, 1/4; center 6.9271, 79.8612; radius 20 km)
BaseArgs ==
    [duration_days |-> 2, N |-> 2, I0 |-> 1, R0 |-> 0, E0 |-> 0,
     beta |-> 2, sigma |-> 1, gamma |-> 1,
     center_lat |-> 69271, center_lon |-> 798612, radius_km |-> 20]

PopVals == (-1) .. MaxN
CompVals == (-1) .. MaxComp
RateVals == {-2, 1, 2, 4}
DayVals == (-2) .. MaxDays
\* the default center; a center north of the box whose disk reaches into it;
\* a center whose disk misses the box
CenterVals == {<<69271, 798612>>, <<70000, 798612>>, <<75000, 798612>>}
RadiusVals == {0, 20}

PopArgs ==
    {[BaseArgs EXCEPT !.N = n, !.I0 = i, !.R0 = r, !.E0 = e] :
        n \in PopVals, i \in CompVals, r \in CompVals, e \in CompVals}
DynArgs ==
    {[BaseArgs EXCEPT !.beta = b, !.sigma = s, !.gamma = g, !.duration_days = d,
                      !.E0 = e] :
        b \in RateVals, s \in RateVals, g \in RateVals, d \in DayVals, e \in {0, 1}}
GeoArgs ==
    {[BaseArgs EXCEPT !.center_lat = c[1], !.center_lon = c[2], !.radius_km = r,
                      !.I0 = 0, !.E0 = 2, !.sigma = 4] :
        c \in CenterVals, r \in RadiusVals}
ArgsRun == PopArgs \cup DynArgs \cup GeoArgs
ArgsExpand == {[BaseArgs EXCEPT !.I0 = i] : i \in {0, 1}}

Construct(argSet) ==
    /\ pc = "new"
    /\ \E a \in argSet :
        /\ args' = a
        /\ IF ValidParameters(a)
           THEN /\ self' = InitFields(a)
                /\ pc' = "constructed"
           ELSE /\ self' = self
                /\ pc' = "init_raised"
    /\ UNCHANGED <<seir_data, I, day, new_cases, j, patient_counter, data, cand>>
    /\ UNCHANGED wvars

(***************************************************************************)
(* DiseaseOutbreakSimulation.seir_model: the derivative at state y.        *)
(* y counts 1/Scale persons, N counts persons, the rates count 1/RateDen.  *)
(***************************************************************************)
\* seir_model with dRdt = gamma * R in place of gamma * I
seir_model_RecoveryFromR(y, t, N, beta, sigma, gamma) ==
    LET S == y[1]
        E == y[2]
        Inf == y[3]
        R == y[4]
        dSdt == QDiv(-beta * S * Inf, RateDen * N * Scale)
        dEdt == QDiv(beta * S * Inf, RateDen * N * Scale) - QDiv(sigma * E, RateDen)
        dIdt == QDiv(sigma * E, RateDen) - QDiv(gamma * Inf, RateDen)
        dRdt == QDiv(gamma * R, RateDen)
    IN  <<dSdt, dEdt, dIdt, dRdt>>

seir_model(y, t, N, beta, sigma, gamma) ==
    LET S == y[1]
        E == y[2]
        Inf == y[3]
        R == y[4]
        dSdt == QDiv(-beta * S * Inf, RateDen * N * Scale)
        dEdt == QDiv(beta * S * Inf, RateDen * N * Scale) - QDiv(sigma * E, RateDen)
        dIdt == QDiv(sigma * E, RateDen) - QDiv(gamma * Inf, RateDen)
        dRdt == QDiv(gamma * Inf, RateDen)
    IN  <<dSdt, dEdt, dIdt, dRdt>>

(***************************************************************************)
(* numpy.linspace(start, stop, num) as run_simulation calls it: num        *)
(* evenly spaced samples with both ends included; a negative num raises.   *)
(***************************************************************************)
LinspaceRaises(num) == num < 0

Linspace(start, stop, num) ==
    [i \in 1 .. num |->
        IF num = 1 THEN start
        ELSE IF i = num THEN stop
        ELSE start + QDiv((i - 1) * (stop - start), num - 1)]

(***************************************************************************)
(* scipy's odeint(func, y0, t, args): the state at each time of t, the     *)
(* first being y0.  The library's adaptive solver is modelled by one       *)
(* explicit step per grid interval, y + h * func(y).                       *)
(***************************************************************************)
Odeint(y0, t, N, beta, sigma, gamma) ==
    LET ret[i \in 1 .. Len(t)] ==
            IF i = 1 THEN y0
            ELSE LET p == ret[i - 1]
                     d == seir_model(p, t[i - 1], N, beta, sigma, gamma)
                     h == t[i] - t[i - 1]
                 IN  [k \in 1 .. 4 |-> p[k] + h * d[k]]
    IN  [i \in 1 .. Len(t) |-> ret[i]]

\* odeint on an empty time grid copies y0 into a result of no rows: the
\* call is outside the library's domain and may fail or return the empty table
OdeintOutcomes(t) == IF Len(t) = 0 THEN {"returns", "raises"} ELSE {"returns"}

\* y0 = self.S0, self.E0, self.I0, self.R0 (persons, as fixed-point floats)
InitialState(s) == <<s.S0 * Scale, s.E0 * Scale, s.I0 * Scale, s.R0 * Scale>>

(***************************************************************************)
(* DiseaseOutbreakSimulation.run_simulation up to its call of              *)
(* generate_patient_data(I), whose loop the actions below continue.        *)
(***************************************************************************)
RunSimulation ==
    /\ pc = "constructed"
    /\ LET num == self.duration_days + 1
       IN  IF LinspaceRaises(num)
           THEN /\ pc' = "run_raised"
                /\ UNCHANGED <<seir_data, I, day, patient_counter, data>>
           ELSE LET t == Linspace(0, self.duration_days, num)
                    ret == Odeint(InitialState(self), t, self.N, self.beta,
                                  self.sigma, self.gamma)
                IN  \E outcome \in OdeintOutcomes(t) :
                        IF outcome = "raises"
                        THEN /\ pc' = "run_raised"
                             /\ UNCHANGED <<seir_data, I, day, patient_counter, data>>
                        ELSE /\ seir_data' =
                                    [i \in 1 .. Len(t) |->
                                        [t |-> t[i], S |-> ret[i][1], E |-> ret[i][2],
                                         I |-> ret[i][3], R |-> ret[i][4]]]
                             /\ I' = [i \in 1 .. Len(t) |-> ret[i][3]]
                             /\ day' = 0
                             /\ patient_counter' = 1
                             /\ data' = <<>>
                             /\ pc' = "loop"
    /\ UNCHANGED <<args, self, new_cases, j, cand>>
    /\ UNCHANGED wvars

(***************************************************************************)
(* generate_patient_data(I) called by the user of the class with an        *)
(* infected curve of their own.                                            *)
(***************************************************************************)
IVals == {0, 3, 4, 8}
ISeqs == UNION {[1 .. n -> IVals] : n \in 0 .. MaxLen}

CallGeneratePatientData ==
    /\ pc = "constructed"
    /\ \E curve \in ISeqs : I' = curve
    /\ day' = 0
    /\ patient_counter' = 1
    /\ data' = <<>>
    /\ pc' = "loop"
    /\ UNCHANGED <<args, self, seir_data, new_cases, j, cand>>
    /\ UNCHANGED wvars

(***************************************************************************)
(* DiseaseOutbreakSimulation.generate_random_location                      *)
(* Degrees count 1/10000 of a degree; r, dx, dy count metres.              *)
(***************************************************************************)
MinLat == 68500
MaxLat == 69800
MinLon == 798200
MaxLon == 799000
COLOMBO_BOUNDS ==
    [min_lat |-> MinLat, max_lat |-> MaxLat, min_lon |-> MinLon, max_lon |-> MaxLon]

MetresPerDegLat == 111320  \* 111.32 km per degree

\* values of random.random() used for the radius, in sixteenths (u < 1),
\* and for the angle, in quarters of a turn
RadialDraws == {0, 1, 4, 9}
AngleDraws == 0 .. 3

\* np.sqrt(u) for u in sixteenths, in quarters
Sqrt(u) == CHOOSE k \in 0 .. 4 : k * k = u

\* np.cos and np.sin of theta = q * 2 * pi / 4
Cos(q) == <<1, 0, -1, 0>>[q + 1]
Sin(q) == <<0, 1, 0, -1>>[q + 1]

\* np.cos(np.radians(lat)) in 1/10000, for the latitudes of CenterVals
CosRadians(lat) ==
    CASE lat = 69271 -> 9927
      [] lat = 70000 -> 9925
      [] lat = 75000 -> 9914

\* 111.32 * np.cos(np.radians(center_lat)) km per degree, in metres
MetresPerDegLon(lat) == (11132 * CosRadians(lat)) \div 1000

\* one pass of the while loop up to the test: lat, lon of the draws u1, u2
\* (a degree is 10000 units)
Candidate(s, u1, u2) ==
    LET r == (s.radius_km * 1000 * Sqrt(u1)) \div 4
        dx == r * Cos(u2)
        dy == r * Sin(u2)
    IN  [lat |-> s.center_lat + QDiv(dy * 10000, MetresPerDegLat),
         lon |-> s.center_lon + QDiv(dx * 10000, MetresPerDegLon(s.center_lat))]

\* InBounds without the longitude test
InBounds_LatitudeOnly(p) ==
    /\ COLOMBO_BOUNDS.min_lat <= p.lat /\ p.lat <= COLOMBO_BOUNDS.max_lat

\* InBounds with the two ends of each range exchanged
InBounds_EndsExchanged(p) ==
    /\ COLOMBO_BOUNDS.max_lat <= p.lat /\ p.lat <= COLOMBO_BOUNDS.min_lat
    /\ COLOMBO_BOUNDS.max_lon <= p.lon /\ p.lon <= COLOMBO_BOUNDS.min_lon

\* the test of the while loop (lines 120-121)
InBounds(p) ==
    /\ COLOMBO_BOUNDS.min_lat <= p.lat /\ p.lat <= COLOMBO_BOUNDS.max_lat
    /\ COLOMBO_BOUNDS.min_lon <= p.lon /\ p.lon <= COLOMBO_BOUNDS.max_lon

(***************************************************************************)
(* DiseaseOutbreakSimulation.generate_patient_data                         *)
(***************************************************************************)
\* f"P{patient_counter:05d}": the decimal digits, zero-padded to five
RECURSIVE Digits(_)
Digits(n) == IF n < 10 THEN <<n>> ELSE Append(Digits(n \div 10), n % 10)

Format05d(n) ==
    LET d == Digits(n)
    IN  IF Len(d) >= 5 THEN d ELSE [i \in 1 .. 5 - Len(d) |-> 0] \o d

PatientId(counter) == [prefix |-> "P", digits |-> Format05d(counter)]

\* the number a patient_id shows
RECURSIVE DigitsValue(_)
DigitsValue(d) ==
    IF d = <<>> THEN 0 ELSE 10 * DigitsValue(SubSeq(d, 1, Len(d) - 1)) + d[Len(d)]
IdNumber(id) == DigitsValue(id.digits)

\* random.randint(a, b)
RandInt(a, b) == a .. b

\* random.choices(['Mild', 'Moderate', 'Severe'], weights=[0.7, 0.25, 0.05])[0]
\* for a uniform draw of u hundredths
Choices(u) ==
    IF u < 70 THEN "Mild" ELSE IF u < 95 THEN "Moderate" ELSE "Severe"

\* the draws of one record: random.randint(0, 23), random.randint(0, 59),
\* random.randint(1, 90) and the uniform of random.choices, in hundredths;
\* the lowest, a middle and the highest of each
RandomTapes ==
    {tape \in {[hour |-> 0, minute |-> 0, age |-> 1, u |-> 0],
               [hour |-> 12, minute |-> 30, age |-> 45, u |-> 70],
               [hour |-> 23, minute |-> 59, age |-> 90, u |-> 99]} :
        /\ tape.hour \in RandInt(0, 23)
        /\ tape.minute \in RandInt(0, 59)
        /\ tape.age \in RandInt(1, 90)
        /\ tape.u \in 0 .. 99}

MinutesPerDay == 1440
MinutesPerHour == 60

\* timedelta(days=d, hours=h, minutes=m), in minutes after start_date
\* Timedelta with days counted from 1
Timedelta_OneBasedDay(d, h, m) == (d + 1) * MinutesPerDay + h * MinutesPerHour + m

Timedelta(d, h, m) == d * MinutesPerDay + h * MinutesPerHour + m

\* NewCases without the day > 0 test: on day 0, I[day-1] is the last entry
NewCases_WrapsOnDayZero(curve, d, I0) ==
    Max(0, PyInt(curve[d + 1]) - PyInt(curve[IF d > 0 THEN d ELSE Len(curve)]))

\* NewCases without the clamp max(0, .)
NewCases_Unclamped(curve, d, I0) ==
    PyInt(curve[d + 1]) - (IF d > 0 THEN PyInt(curve[d]) ELSE I0)

\* NewCases with the size of the change in place of the clamp
NewCases_Absolute(curve, d, I0) ==
    Abs(PyInt(curve[d + 1]) - (IF d > 0 THEN PyInt(curve[d]) ELSE I0))

\* NewCases that compares day 0 with 0 instead of the configured I0
NewCases_DayZeroFromNothing(curve, d, I0) ==
    Max(0, PyInt(curve[d + 1]) - (IF d > 0 THEN PyInt(curve[d]) ELSE 0))

\* NewCases that gives day 0 no cases at all
NewCases_SkipsDayZero(curve, d, I0) ==
    IF d > 0 THEN Max(0, PyInt(curve[d + 1]) - PyInt(curve[d])) ELSE 0

\* line 74: new_cases of day d (0-based) of the curve
NewCases(curve, d, I0) ==
    Max(0, PyInt(curve[d + 1]) - (IF d > 0 THEN PyInt(curve[d]) ELSE I0))

\* Record with ages counted from 0
Record_AgeFromZero(counter, d, tape, loc) ==
    [patient_id |-> PatientId(counter),
     timestamp |-> Timedelta(d, tape.hour, tape.minute),
     age |-> tape.age - 1,
     severity |-> Choices(tape.u),
     latitude |-> loc.lat,
     longitude |-> loc.lon]

\* Record with an identifier taken from a random draw
Record_IdFromDraw(counter, d, tape, loc) ==
    [patient_id |-> PatientId(tape.age),
     timestamp |-> Timedelta(d, tape.hour, tape.minute),
     age |-> tape.age,
     severity |-> Choices(tape.u),
     latitude |-> loc.lat,
     longitude |-> loc.lon]

\* the dictionary appended for one patient (lines 83-91)
Record(counter, d, tape, loc) ==
    [patient_id |-> PatientId(counter),
     timestamp |-> Timedelta(d, tape.hour, tape.minute),
     age |-> tape.age,
     severity |-> Choices(tape.u),
     latitude |-> loc.lat,
     longitude |-> loc.lon]

\* NextCounter without the increment
NextCounter_Stuck(counter) == counter

\* the counter after a record is appended (line 92)
NextCounter(counter) == counter + 1

\* the for loop reaches a day: its new_cases, and the inner loop if any
EnumerateDay ==
    /\ pc = "loop"
    /\ day < Len(I)
    /\ LET n == NewCases(I, day, self.I0)
       IN  /\ new_cases' = n
           /\ j' = 0
           /\ IF n > 0
              THEN /\ pc' = "sampling"
                   /\ day' = day
              ELSE /\ pc' = "loop"
                   /\ day' = day + 1
    /\ UNCHANGED <<args, self, seir_data, I, patient_counter, data, cand>>
    /\ UNCHANGED wvars

\* a pass of the while loop of generate_random_location that fails the test
DrawReject ==
    /\ pc = "sampling"
    /\ \E u1 \in RadialDraws, u2 \in AngleDraws :
        LET p == Candidate(self, u1, u2)
        IN  /\ ~InBounds(p)
            /\ cand' = <<p>>
    /\ UNCHANGED <<pc, args, self, seir_data, I, day, new_cases, j, patient_counter, data>>
    /\ UNCHANGED wvars

\* a pass that passes the test: the location returns and the record is appended
DrawAccept ==
    /\ pc = "sampling"
    /\ \E u1 \in RadialDraws, u2 \in AngleDraws, tape \in RandomTapes :
        LET p == Candidate(self, u1, u2)
        IN  /\ InBounds(p)
            /\ data' = Append(data, Record(patient_counter, day, tape, p))
    /\ patient_counter' = NextCounter(patient_counter)
    /\ j' = j + 1
    /\ cand' = <<>>
    /\ IF j + 1 < new_cases
       THEN /\ pc' = "sampling"
            /\ day' = day
       ELSE /\ pc' = "loop"
            /\ day' = day + 1
    /\ UNCHANGED <<args, self, seir_data, I, new_cases>>
    /\ UNCHANGED wvars

\* the for loop is exhausted: return pd.DataFrame(data)
Return ==
    /\ pc = "loop"
    /\ day >= Len(I)
    /\ pc' = "done"
    /\ UNCHANGED <<args, self, seir_data, I, day, new_cases, j, patient_counter, data, cand>>
    /\ UNCHANGED wvars

(***************************************************************************)
(* The weather generator (weather model/model.py, class                    *)
(* WeatherDataGenerator): the season of a date, the season's parameters,   *)
(* and the day and hour loops of generate_hourly_data.                     *)
(*                                                                         *)
(* Numbers.  A datetime counts the hours since 1 January 00:00 of a year   *)
(* of 365 days.  Temperature, humidity, rainfall and wind speed count      *)
(* 1/1000 of their unit while they are computed and 1/10 in a record       *)
(* (round(x, 1)); latitude and longitude count 1/1000000 of a degree       *)
(* while they are computed and 1/10000 in a record (round(x, 4)).          *)
(* Probabilities and the values of random.random() count 1/100.            *)
(***************************************************************************)
MaxWDays == 2

\* round(x, n) of Python: x counts 1/q of the unit of the result; a tie goes
\* to the even neighbour
RoundHalfEven(x, q) ==
    LET f == x \div q
        r == x - f * q
    IN  IF 2 * r < q THEN f
        ELSE IF 2 * r > q THEN f + 1
        ELSE IF f % 2 = 0 THEN f ELSE f + 1

Min(a, b) == IF a <= b THEN a ELSE b

\* the days of the months of a year that is not a leap year
DaysInMonth == <<31, 28, 31, 30, 31, 30, 31, 31, 30, 31, 30, 31>>

RECURSIVE DaysBefore(_)
\* the days of the year before the first day of month m
DaysBefore(m) == IF m = 1 THEN 0 ELSE DaysBefore(m - 1) + DaysInMonth[m - 1]

\* datetime.month
Month(dt) ==
    LET doy == (dt \div 24) % 365
    IN  CHOOSE m \in 1..12 : DaysBefore(m) <= doy /\ doy < DaysBefore(m) + DaysInMonth[m]

\* datetime + timedelta(days=d, hours=h)
PlusTimedelta(dt, d, h) == dt + 24 * d + h

\* datetime(year, m, d) at h o'clock
Datetime(m, d, h) == 24 * (DaysBefore(m) + d - 1) + h

\* lines 26-77; the lists 'months' of the table are left out, no code reads them
MONSOON_SEASONS ==
    [southwest |->
        [rainfall_probability |-> 80,
         rainfall_intensity |-> [min |-> 20, max |-> 150],
         wind_speed |-> [min |-> 15, max |-> 45],
         humidity |-> [min |-> 75, max |-> 95]],
     northeast |->
        [rainfall_probability |-> 60,
         rainfall_intensity |-> [min |-> 10, max |-> 100],
         wind_speed |-> [min |-> 10, max |-> 35],
         humidity |-> [min |-> 70, max |-> 90]],
     inter_monsoon |->
        [rainfall_probability |-> 40,
         rainfall_intensity |-> [min |-> 5, max |-> 50],
         wind_speed |-> [min |-> 5, max |-> 25],
         humidity |-> [min |-> 65, max |-> 85]]]

BASE_WEATHER ==
    [temperature |-> [min |-> 24, max |-> 32, night_reduction |-> 3],
     humidity |-> [min |-> 60, max |-> 80],
     rainfall |-> [probability |-> 20, amount |-> [min |-> 0, max |-> 20]],
     wind_speed |-> [min |-> 0, max |-> 15]]

\* a lower bound of the months of the southwest monsoon that leaves May out
get_season_StrictLowerBound(month) ==
    IF 5 < month /\ month <= 9 THEN "southwest"
    ELSE IF month = 12 \/ (1 <= month /\ month <= 2) THEN "northeast"
    ELSE IF month \in {3, 4, 10, 11} THEN "inter_monsoon"
    ELSE "normal"

\* a list of inter-monsoon months without November
get_season_NovemberLeftOut(month) ==
    IF 5 <= month /\ month <= 9 THEN "southwest"
    ELSE IF month = 12 \/ (1 <= month /\ month <= 2) THEN "northeast"
    ELSE IF month \in {3, 4, 10} THEN "inter_monsoon"
    ELSE "normal"

\* get_season(date), given date.month
get_season(month) ==
    IF 5 <= month /\ month <= 9 THEN "southwest"
    ELSE IF month = 12 \/ (1 <= month /\ month <= 2) THEN "northeast"
    ELSE IF month \in {3, 4, 10, 11} THEN "inter_monsoon"
    ELSE "normal"

\* the parameters generate_hourly_data takes for a season
SeasonParameters(season) ==
    IF season \in {"southwest", "northeast"}
    THEN [rainfall_prob |-> MONSOON_SEASONS[season].rainfall_probability,
          rainfall_range |-> MONSOON_SEASONS[season].rainfall_intensity,
          wind_range |-> MONSOON_SEASONS[season].wind_speed,
          humidity_range |-> MONSOON_SEASONS[season].humidity]
    ELSE IF season = "inter_monsoon"
    THEN [rainfall_prob |-> MONSOON_SEASONS["inter_monsoon"].rainfall_probability,
          rainfall_range |-> MONSOON_SEASONS["inter_monsoon"].rainfall_intensity,
          wind_range |-> MONSOON_SEASONS["inter_monsoon"].wind_speed,
          humidity_range |-> MONSOON_SEASONS["inter_monsoon"].humidity]
    ELSE [rainfall_prob |-> BASE_WEATHER.rainfall.probability,
          rainfall_range |-> BASE_WEATHER.rainfall.amount,
          wind_range |-> BASE_WEATHER.wind_speed,
          humidity_range |-> BASE_WEATHER.humidity]

(***************************************************************************)
(* The random module.  Its generator is deterministic once seeded: the     *)
(* model's generator walks around three values of random.random(), 0,      *)
(* 0.5 and 0.99, from a starting position by a stride, both fixed by the   *)
(* seed.  A stride of 0 gives a constant stream, so each draw of the code  *)
(* takes each of the three values in some run.                             *)
(***************************************************************************)
Levels == <<0, 50, 99>>

Seeds == [pos : 0..2, stride : 0..2]

\* the value of the k-th call of random.random() from now, k = 0 for the next
RandomRandom(r, k) == Levels[((r.pos + k * r.stride) % 3) + 1]

\* the generator after k calls
AfterDraws(r, k) == [r EXCEPT !.pos = (r.pos + k * r.stride) % 3]

\* random.uniform(a, b) = a + (b - a) * random(), in 1/1000 of the unit of a and b
Uniform(a, b, u) == 1000 * a + 10 * (b - a) * u

\* random.uniform over degrees: a and b count 1/10000 degree, the result 1/1000000
UniformDegrees(a, b, u) == 100 * a + (b - a) * u

\* 1000 * np.sin(np.pi * k / 12)
SinTable == <<0, 259, 500, 707, 866, 966, 1000>>

SinPi12(k) ==
    LET m == k % 24
    IN  IF m <= 6 THEN SinTable[m + 1]
        ELSE IF m <= 12 THEN SinTable[12 - m + 1]
        ELSE IF m <= 18 THEN - SinTable[m - 12 + 1]
        ELSE - SinTable[24 - m + 1]

MonsoonRain(season, is_rainy_day) ==
    season \in {"southwest", "northeast"} /\ is_rainy_day

\* lines 155-163: the temperature of an hour, uCool the draw of the cooling
Temperature(base_temp, hour, season, is_rainy_day, uCool) ==
    LET variation == 3 * SinPi12(hour - 6)
        night == IF (0 <= hour /\ hour <= 6) \/ (18 <= hour /\ hour <= 23)
                 THEN 1000 * BASE_WEATHER.temperature.night_reduction ELSE 0
        cooling == IF MonsoonRain(season, is_rainy_day) THEN Uniform(1, 3, uCool) ELSE 0
    IN  base_temp + variation - night - cooling

\* the humidity of an hour without the cap of line 169
Humidity_Uncapped(humidity_range, is_rainy_day, u, uExtra) ==
    Uniform(humidity_range.min, humidity_range.max, u)
        + (IF is_rainy_day THEN Uniform(5, 10, uExtra) ELSE 0)

\* lines 166-169: the humidity of an hour
Humidity(humidity_range, is_rainy_day, u, uExtra) ==
    Min(Uniform(humidity_range.min, humidity_range.max, u)
            + (IF is_rainy_day THEN Uniform(5, 10, uExtra) ELSE 0),
        100000)

\* lines 173-184: whether the hour draws an amount of rain
RainDrawn(season, is_rainy_day, hour) ==
    /\ is_rainy_day
    /\ IF season \in {"southwest", "northeast"}
       THEN 6 <= hour /\ hour <= 18
       ELSE 12 <= hour /\ hour <= 18

\* rain that falls in the gate hours of a day that is not rainy as well
Rainfall_EveryDay(season, is_rainy_day, hour, rainfall_range, u) ==
    IF ~RainDrawn(season, TRUE, hour) THEN 0
    ELSE IF season \in {"southwest", "northeast"}
    THEN QDiv(Uniform(rainfall_range.min, rainfall_range.max, u) * (2000 + SinPi12(hour)), 2000)
    ELSE Uniform(rainfall_range.min, rainfall_range.max, u)

\* lines 172-188: the rainfall of an hour
Rainfall(season, is_rainy_day, hour, rainfall_range, u) ==
    IF ~RainDrawn(season, is_rainy_day, hour) THEN 0
    ELSE IF season \in {"southwest", "northeast"}
    THEN QDiv(Uniform(rainfall_range.min, rainfall_range.max, u) * (2000 + SinPi12(hour)), 2000)
    ELSE Uniform(rainfall_range.min, rainfall_range.max, u)

\* a diurnal variation of the wind of twice the amplitude
WindSpeed_DoubleAmplitude(wind_range, hour, u) ==
    Uniform(wind_range.min, wind_range.max, u) + 10 * SinPi12(hour)

\* lines 191-195: the wind speed of an hour
WindSpeed(wind_range, hour, u) ==
    Uniform(wind_range.min, wind_range.max, u) + 5 * SinPi12(hour)

\* the record of an hour that starts at 1 o'clock instead of 0
WeatherRecord_HourFromOne(d, hour, r) ==
    LET cool == IF MonsoonRain(d.season, d.is_rainy_day) THEN 1 ELSE 0
        extra == IF d.is_rainy_day THEN 1 ELSE 0
        rain == IF RainDrawn(d.season, d.is_rainy_day, hour) THEN 1 ELSE 0
        kHum == cool
        kRain == kHum + 1 + extra
        kWind == kRain + rain
    IN  [timestamp |-> PlusTimedelta(d.current_datetime, 0, hour + 1),
         season |-> d.season,
         latitude |-> RoundHalfEven(
             UniformDegrees(MinLat, MaxLat, RandomRandom(r, kWind + 1)), 100),
         longitude |-> RoundHalfEven(
             UniformDegrees(MinLon, MaxLon, RandomRandom(r, kWind + 2)), 100),
         temperature |-> RoundHalfEven(
             Temperature(d.base_temp, hour, d.season, d.is_rainy_day,
                         RandomRandom(r, 0)), 100),
         humidity |-> RoundHalfEven(
             Humidity(d.humidity_range, d.is_rainy_day,
                      RandomRandom(r, kHum), RandomRandom(r, kHum + 1)), 100),
         rainfall |-> RoundHalfEven(
             Rainfall(d.season, d.is_rainy_day, hour, d.rainfall_range,
                      RandomRandom(r, kRain)), 100),
         wind_speed |-> RoundHalfEven(
             WindSpeed(d.wind_range, hour, RandomRandom(r, kWind)), 100)]

\* the number of calls of the random module an hour makes
DrawsOfHour(d, hour) ==
    (IF MonsoonRain(d.season, d.is_rainy_day) THEN 1 ELSE 0)
        + 1 + (IF d.is_rainy_day THEN 1 ELSE 0)
        + (IF RainDrawn(d.season, d.is_rainy_day, hour) THEN 1 ELSE 0)
        + 3

\* lines 154-216: the record of an hour of a day whose values are d, the
\* random module being at r; the draws are taken in the order of the code
WeatherRecord(d, hour, r) ==
    LET cool == IF MonsoonRain(d.season, d.is_rainy_day) THEN 1 ELSE 0
        extra == IF d.is_rainy_day THEN 1 ELSE 0
        rain == IF RainDrawn(d.season, d.is_rainy_day, hour) THEN 1 ELSE 0
        kHum == cool
        kRain == kHum + 1 + extra
        kWind == kRain + rain
    IN  [timestamp |-> PlusTimedelta(d.current_datetime, 0, hour),
         season |-> d.season,
         latitude |-> RoundHalfEven(
             UniformDegrees(MinLat, MaxLat, RandomRandom(r, kWind + 1)), 100),
         longitude |-> RoundHalfEven(
             UniformDegrees(MinLon, MaxLon, RandomRandom(r, kWind + 2)), 100),
         temperature |-> RoundHalfEven(
             Temperature(d.base_temp, hour, d.season, d.is_rainy_day,
                         RandomRandom(r, 0)), 100),
         humidity |-> RoundHalfEven(
             Humidity(d.humidity_range, d.is_rainy_day,
                      RandomRandom(r, kHum), RandomRandom(r, kHum + 1)), 100),
         rainfall |-> RoundHalfEven(
             Rainfall(d.season, d.is_rainy_day, hour, d.rainfall_range,
                      RandomRandom(r, kRain)), 100),
         wind_speed |-> RoundHalfEven(
             WindSpeed(d.wind_range, hour, RandomRandom(r, kWind)), 100)]

\* lines 124-151: the values of a day, the random module being at r
DailyValues(start_date, d, r) ==
    LET current_datetime == PlusTimedelta(start_date, d, 0)
        season == get_season(Month(current_datetime))
        p == SeasonParameters(season)
    IN  [current_datetime |-> current_datetime,
         season |-> season,
         rainfall_prob |-> p.rainfall_prob,
         rainfall_range |-> p.rainfall_range,
         wind_range |-> p.wind_range,
         humidity_range |-> p.humidity_range,
         base_temp |-> Uniform(BASE_WEATHER.temperature.min,
                               BASE_WEATHER.temperature.max, RandomRandom(r, 0)),
         is_rainy_day |-> RandomRandom(r, 1) < p.rainfall_prob]

NoDaily ==
    [current_datetime |-> 0, season |-> "", rainfall_prob |-> 0,
     rainfall_range |-> [min |-> 0, max |-> 0],
     wind_range |-> [min |-> 0, max |-> 0],
     humidity_range |-> [min |-> 0, max |-> 0],
     base_temp |-> 0, is_rainy_day |-> FALSE]

\* the start dates a caller passes: midnight of the first and of the last
\* day of each month
GivenDates ==
    {Datetime(m, 1, 0) : m \in 1..12} \cup {Datetime(m, DaysInMonth[m], 0) : m \in 1..12}

\* datetime.now() when no start date is passed: an afternoon at the end of a
\* month, of a season and of the year
Clock == {Datetime(4, 30, 13), Datetime(7, 31, 13), Datetime(12, 31, 13)}

\* start_date = None is the value [given |-> FALSE]
StartDateArgs ==
    {[given |-> FALSE, at |-> 0]} \cup {[given |-> TRUE, at |-> dt] : dt \in GivenDates}

WDurationVals == (-1)..MaxWDays

\* WeatherDataGenerator(start_date, duration_days), lines 103-104; the random
\* module of the program that constructs it has been seeded by the system
WConstruct ==
    /\ wpc = "new"
    /\ \E a \in StartDateArgs, dur \in WDurationVals, now \in Clock, seed \in Seeds :
         /\ a.given => now = Datetime(4, 30, 13)
         /\ generator' = [start_date |-> IF a.given THEN a.at ELSE now,
                          duration_days |-> dur]
         /\ rnd' = seed
    /\ wpc' = "constructed"
    /\ UNCHANGED <<wday, whour, daily, wdata>>
    /\ UNCHANGED <<pc, args, self, seir_data, I, day, new_cases, j, patient_counter, data, cand>>

\* generate_hourly_data, lines 120-123: the empty list and the first day
GenerateHourlyData ==
    /\ wpc = "constructed"
    /\ wdata' = <<>>
    /\ wday' = 0
    /\ wpc' = "days"
    /\ UNCHANGED <<generator, rnd, whour, daily>>
    /\ UNCHANGED <<pc, args, self, seir_data, I, day, new_cases, j, patient_counter, data, cand>>

\* lines 123-153: a day of range(duration_days) begins
BeginDay ==
    /\ wpc = "days"
    /\ wday < generator.duration_days
    /\ daily' = DailyValues(generator.start_date, wday, rnd)
    /\ rnd' = AfterDraws(rnd, 2)
    /\ whour' = 0
    /\ wpc' = "hours"
    /\ UNCHANGED <<generator, wday, wdata>>
    /\ UNCHANGED <<pc, args, self, seir_data, I, day, new_cases, j, patient_counter, data, cand>>

\* lines 153-216: an hour of range(24); after the last the next day
Hour ==
    /\ wpc = "hours"
    /\ wdata' = Append(wdata, WeatherRecord(daily, whour, rnd))
    /\ rnd' = AfterDraws(rnd, DrawsOfHour(daily, whour))
    /\ IF whour + 1 < 24
       THEN /\ whour' = whour + 1
            /\ UNCHANGED <<wpc, wday>>
       ELSE /\ whour' = 0
            /\ wday' = wday + 1
            /\ wpc' = "days"
    /\ UNCHANGED <<generator, daily>>
    /\ UNCHANGED <<pc, args, self, seir_data, I, day, new_cases, j, patient_counter, data, cand>>

\* line 218: range(duration_days) is exhausted
WReturn ==
    /\ wpc = "days"
    /\ wday >= generator.duration_days
    /\ wpc' = "done"
    /\ UNCHANGED <<generator, rnd, wday, whour, daily, wdata>>
    /\ UNCHANGED <<pc, args, self, seir_data, I, day, new_cases, j, patient_counter, data, cand>>

(***************************************************************************)
(* Specifications.  Spec: a simulation is constructed and run_simulation   *)
(* is called.  SpecExpand: a simulation is constructed and                 *)
(* generate_patient_data is called with a curve of the caller's.           *)
(***************************************************************************)
Init ==
    /\ pc = "new"
    /\ args = "None"
    /\ self = UnsetSelf
    /\ seir_data = <<>>
    /\ I = <<>>
    /\ day = 0
    /\ new_cases = 0
    /\ j = 0
    /\ patient_counter = 0
    /\ data = <<>>
    /\ cand = <<>>
    /\ wpc = "new"
    /\ generator = [start_date |-> 0, duration_days |-> 0]
    /\ rnd = [pos |-> 0, stride |-> 0]
    /\ wday = 0
    /\ whour = 0
    /\ daily = NoDaily
    /\ wdata = <<>>

Expand == EnumerateDay \/ DrawReject \/ DrawAccept \/ Return

Next == Construct(ArgsRun) \/ RunSimulation \/ Expand

Spec == Init /\ [][Next]_vars

NextExpand == Construct(ArgsExpand) \/ CallGeneratePatientData \/ Expand

SpecExpand == Init /\ [][NextExpand]_vars

NextWeather == WConstruct \/ GenerateHourlyData \/ BeginDay \/ Hour \/ WReturn

\* a weather generator is constructed and generate_hourly_data is called
SpecWeather == Init /\ [][NextWeather]_vars

\* the random draws are fair: a draw that passes the test is not avoided forever
FairSpec == Spec /\ SF_vars(DrawAccept)

(***************************************************************************)
(* Properties                                                              *)
(***************************************************************************)
Constructed == pc \notin {"new", "init_raised"}

\* C1: construction raises exactly when N <= 0, or one of I0, R0, E0 is
\* negative, or E0 + I0 + R0 > N; when it raises no field of the simulation
\* has been set, and otherwise every field holds its argument.
C1_ConstructionValidation ==
    pc # "new" =>
        LET invalid ==
                \/ args.N <= 0
                \/ args.I0 < 0 \/ args.R0 < 0 \/ args.E0 < 0
                \/ args.E0 + args.I0 + args.R0 > args.N
        IN  /\ (pc = "init_raised") <=> invalid
            /\ pc = "init_raised" => self = UnsetSelf
            /\ pc # "init_raised" =>
                /\ self.N = args.N /\ self.I0 = args.I0
                /\ self.R0 = args.R0 /\ self.E0 = args.E0
                /\ self.duration_days = args.duration_days
                /\ self.beta = args.beta /\ self.sigma = args.sigma
                /\ self.gamma = args.gamma
                /\ self.center_lat = args.center_lat
                /\ self.center_lon = args.center_lon
                /\ self.radius_km = args.radius_km

\* C1 witness: construction raised although N > 0 and no compartment is
\* negative: the sum test alone rejected it, and E0 tipped the sum over N
C1_Witness ==
    /\ pc = "init_raised"
    /\ args.N > 0 /\ args.I0 >= 0 /\ args.R0 >= 0 /\ args.E0 >= 0
    /\ args.I0 + args.R0 <= args.N
    /\ self = UnsetSelf

\* generate_patient_data has been entered
Expanding == pc \in {"loop", "sampling", "done"}

\* the day a record belongs to, and the records of a day
RecordDay(rec) == rec.timestamp \div MinutesPerDay
RecordsOfDay(d) == Cardinality({k \in 1 .. Len(data) : RecordDay(data[k]) = d})

\* the days whose records are complete
DaysDone == {d \in 0 .. Len(I) - 1 : d < day}

\* C2 as stated: the records of day d number max(0, round(I[d]) - prev), prev
\* being round(I[d-1]) for d > 0 and the configured I0 for d = 0.
C2_RoundedDelta ==
    Expanding =>
        \A d \in DaysDone :
            RecordsOfDay(d) =
                Max(0, PyRound(I[d + 1]) - (IF d > 0 THEN PyRound(I[d]) ELSE self.I0))

\* C2 amended: the records of day d number max(0, int(I[d]) - prev), prev
\* being int(I[d-1]) for d > 0 and the configured I0 for d = 0, where int
\* truncates toward zero.
C2_TruncatedDelta ==
    Expanding =>
        \A d \in DaysDone :
            RecordsOfDay(d) =
                Max(0, PyInt(I[d + 1]) - (IF d > 0 THEN PyInt(I[d]) ELSE self.I0))

\* C2 witness: a finished expansion with records on day 0 and on a later day
C2_Witness ==
    /\ pc = "done"
    /\ RecordsOfDay(0) > 0
    /\ \E d \in 1 .. Len(I) - 1 : RecordsOfDay(d) > 0

\* the positive day-over-day increments of a curve (units of 1/Scale), the
\* value before day 0 being the configured I0
PositiveIncrements(curve, I0) ==
    SumSeq([d \in 1 .. Len(curve) |->
                Max(0, curve[d] - (IF d > 1 THEN curve[d - 1] ELSE I0 * Scale))])

\* the same of the truncated curve (persons)
PositiveTruncatedIncrements(curve, I0) ==
    SumSeq([d \in 1 .. Len(curve) |->
                Max(0, PyInt(curve[d]) - (IF d > 1 THEN PyInt(curve[d - 1]) ELSE I0))])

\* C3 as stated: new_cases is never negative and the records number at most
\* the sum over the days of max(0, I[d] - I[d-1]).
C3_BoundedByIncrements ==
    Expanding =>
        /\ new_cases >= 0
        /\ pc = "done" => Len(data) * Scale <= PositiveIncrements(I, self.I0)

\* C3 amended: new_cases is never negative and the records number at most
\* the sum over the days of max(0, int(I[d]) - int(I[d-1])), the increments
\* of the truncated curve, with the configured I0 before day 0.
C3_BoundedByTruncatedIncrements ==
    Expanding =>
        /\ new_cases >= 0
        /\ Len(data) <= PositiveTruncatedIncrements(I, self.I0)
        /\ pc = "done" => Len(data) = PositiveTruncatedIncrements(I, self.I0)

\* C3 witness: a finished expansion of a curve that falls and rises, whose
\* records outnumber the positive increments of the curve itself
C3_Witness ==
    /\ pc = "done"
    /\ \E d \in 1 .. Len(I) - 1 : I[d + 1] < I[d]
    /\ Len(data) * Scale > PositiveIncrements(I, self.I0)

\* C4: the k-th record carries the ID number k, written "P" and at least
\* five digits, and the counter is one more than the number of records: IDs
\* start at 1, rise by 1 per record and are not reset at a day boundary.
C4_SequentialIds ==
    Expanding =>
        /\ patient_counter = Len(data) + 1
        /\ \A k \in 1 .. Len(data) :
            /\ IdNumber(data[k].patient_id) = k
            /\ data[k].patient_id.prefix = "P"
            /\ Len(data[k].patient_id.digits) >= 5
        /\ \A k, m \in 1 .. Len(data) :
            k < m => data[k].patient_id # data[m].patient_id

\* C4 witness: three records or more, two of one day and two of different days
C4_Witness ==
    /\ pc = "done"
    /\ Len(data) >= 3
    /\ \E k, m \in 1 .. Len(data) :
        k < m /\ RecordDay(data[k]) = RecordDay(data[m])
    /\ \E k, m \in 1 .. Len(data) :
        k < m /\ RecordDay(data[k]) < RecordDay(data[m])

\* run_simulation has built the (t, S, E, I, R) table
Simulated == pc \in {"loop", "sampling", "done"}

RowState(row) == <<row.S, row.E, row.I, row.R>>

\* C5: at every sampled day the four derivative components sum to zero and
\* S + E + I + R equals N; the initial state sums to N.
C5_TotalConserved ==
    /\ Constructed => SumSeq(InitialState(self)) = self.N * Scale
    /\ Simulated =>
        \A i \in 1 .. Len(seir_data) :
            /\ SumSeq(RowState(seir_data[i])) = self.N * Scale
            /\ SumSeq(seir_model(RowState(seir_data[i]), seir_data[i].t, self.N,
                                 self.beta, self.sigma, self.gamma)) = 0

\* C5 witness: a table of three days or more in which every compartment moves
C5_Witness ==
    /\ Simulated
    /\ Len(seir_data) >= 3
    /\ \A k \in 1 .. 4 : RowState(seir_data[1])[k] # RowState(seir_data[3])[k]

\* C6 as stated: for all parameters construction accepts, S, E, I and R are
\* non-negative at every sampled day.
C6_NonNegative ==
    Simulated =>
        \A i \in 1 .. Len(seir_data) :
            /\ seir_data[i].S >= 0 /\ seir_data[i].E >= 0
            /\ seir_data[i].I >= 0 /\ seir_data[i].R >= 0

\* C7 as stated: for every constructed simulation run_simulation returns a
\* table of duration_days + 1 rows whose times are 0, 1, ..., duration_days.
C7_TrajectoryShape ==
    /\ pc # "run_raised"
    /\ Simulated =>
        /\ Len(seir_data) = self.duration_days + 1
        /\ \A i \in 1 .. Len(seir_data) : seir_data[i].t = i - 1

\* C8 as stated: every constructed simulation has beta > 0, sigma > 0,
\* gamma > 0 and duration_days >= 0.
C8_DataModelConstraints ==
    Constructed =>
        /\ self.beta > 0 /\ self.sigma > 0 /\ self.gamma > 0
        /\ self.duration_days >= 0

\* the parameters satisfy the data model's constraints on the rates and
\* the duration
WithinDataModel ==
    /\ self.beta > 0 /\ self.sigma > 0 /\ self.gamma > 0
    /\ self.duration_days >= 0

\* with the data model's constraints the trajectory is non-negative ...
NonNegativeWithinDataModel == (Constructed /\ WithinDataModel) => C6_NonNegative

\* ... and has the stated shape
ShapeWithinDataModel == (Constructed /\ WithinDataModel) => C7_TrajectoryShape

\* a point lies in the box 6.85..6.98 x 79.82..79.90
InBox(lat, lon) ==
    /\ 68500 <= lat /\ lat <= 69800
    /\ 798200 <= lon /\ lon <= 799000

\* some point the sampler can draw around the center of s lies in the box
HasPointInBox(s) ==
    \E u1 \in RadialDraws, u2 \in AngleDraws :
        LET p == Candidate(s, u1, u2) IN InBox(p.lat, p.lon)

\* C9: the location of every patient record lies in the bounding box, for
\* every center, radius and sequence of draws.
C9_LocationsInBox ==
    Expanding =>
        \A k \in 1 .. Len(data) : InBox(data[k].latitude, data[k].longitude)

\* C9 witness: a record placed away from a center that lies outside the box,
\* and a later draw that failed the test
C9_Witness ==
    /\ pc = "sampling"
    /\ ~InBox(self.center_lat, self.center_lon)
    /\ \E k \in 1 .. Len(data) : data[k].latitude # self.center_lat
    /\ cand # <<>>

\* C10: the sampler has no exit but a draw in the box: under fair draws
\* every call made for a day returns (the day's inner loop ends) whenever
\* some point of the disk lies in the box, and when none does the call
\* neither returns nor raises, whatever is drawn.
C10_SamplerTermination ==
    /\ (pc = "sampling" /\ HasPointInBox(self)) ~> (pc = "loop")
    /\ [][pc = "sampling" =>
            /\ pc' \in {"sampling", "loop"}
            /\ ~HasPointInBox(self) => (pc' = "sampling" /\ data' = data)]_vars

\* C10 witness: a failed pass of a call whose disk has no point in the box
C10_Witness ==
    /\ pc = "sampling"
    /\ ~HasPointInBox(self)
    /\ self.radius_km > 0
    /\ cand # <<>>

(***************************************************************************)
(* Properties of the weather generator.                                    *)
(***************************************************************************)
Generating == wpc \in {"days", "hours", "done"}

\* the simulated day and the hour of the k-th record of the list
DayIndex(k) == (k - 1) \div 24

HourIndex(k) == (k - 1) % 24

\* the date of the simulated day of the k-th record
DayOfRecord(k) == PlusTimedelta(generator.start_date, DayIndex(k), 0)

\* the season of each of the twelve months
SeasonOfMonth ==
    <<"northeast", "northeast", "inter_monsoon", "inter_monsoon",
      "southwest", "southwest", "southwest", "southwest", "southwest",
      "inter_monsoon", "inter_monsoon", "northeast">>

\* C11: the season of a date depends on its month alone: months 5 to 9 are
\* southwest, months 12, 1 and 2 northeast, months 3, 4, 10 and 11
\* inter_monsoon; every record carries the season of the month of its day.
C11_SeasonByMonth ==
    /\ \A m \in 1..12 : get_season(m) = SeasonOfMonth[m]
    /\ wpc = "hours" => daily.season = SeasonOfMonth[Month(daily.current_datetime)]
    /\ \A k \in 1..Len(wdata) :
          wdata[k].season = SeasonOfMonth[Month(DayOfRecord(k))]

\* a run from the last day of April to the first of May is complete
C11_Witness ==
    /\ wpc = "done"
    /\ Len(wdata) = 48
    /\ wdata[1].season = "inter_monsoon"
    /\ Month(DayOfRecord(1)) = 4
    /\ wdata[48].season = "southwest"
    /\ Month(DayOfRecord(48)) = 5

\* the records so far are those of the hours so far, in the order of day and
\* hour: the k-th is one hour after the one before, and of the season of its day
HourlyRecords ==
    /\ Len(wdata) = 24 * wday + (IF wpc = "hours" THEN whour ELSE 0)
    /\ \A k \in 1..Len(wdata) :
          /\ wdata[k].timestamp
               = PlusTimedelta(generator.start_date, DayIndex(k), HourIndex(k))
          /\ k > 1 => wdata[k].timestamp = wdata[k - 1].timestamp + 1
          /\ wdata[k].season = get_season(Month(DayOfRecord(k)))

\* C12 as claimed: one record for each hour of each day, 24 * duration_days
\* records at the return, in the order of day and hour, the timestamps one
\* hour apart, each record of the season of its day.
C12_RecordPerHour ==
    Generating =>
        /\ HourlyRecords
        /\ wpc = "done" => Len(wdata) = 24 * generator.duration_days

\* C12 as amended: the same with 24 * max(0, duration_days) records at the
\* return, a negative duration giving none.
C12_RecordPerHourOfRange ==
    Generating =>
        /\ HourlyRecords
        /\ wpc = "done" => Len(wdata) = 24 * Max(0, generator.duration_days)

\* two days that begin in the afternoon have been generated
C12_Witness ==
    /\ wpc = "done"
    /\ generator.duration_days = 2
    /\ generator.start_date % 24 = 13
    /\ Len(wdata) = 48
    /\ wdata[48].timestamp = generator.start_date + 47

\* C13: every weather record has a wind speed of at least 0, whatever the
\* season, the hour and the draw.
C13_WindSpeedNonNegative ==
    \A k \in 1..Len(wdata) : wdata[k].wind_speed >= 0

\* the least draw of the inter-monsoon range at 18 o'clock, where the diurnal
\* term is -5: the wind speed is exactly 0
C13_Witness ==
    \E k \in 1..Len(wdata) :
        /\ wdata[k].season = "inter_monsoon"
        /\ HourIndex(k) = 18
        /\ wdata[k].wind_speed = 0

\* the humidity range of a season, in per cent
HumidityRangeOf(season) ==
    IF season = "normal" THEN BASE_WEATHER.humidity ELSE MONSOON_SEASONS[season].humidity

\* the record an hour has appended
Appended == wdata' # wdata

NewRecord == wdata'[Len(wdata')]

\* C14: the humidity of every weather record is in [0, 100]; it is a draw
\* from the range of the season, raised by 5 to 10 on a rainy day, and never
\* above 100.
C14_HumidityInRange ==
    /\ [](\A k \in 1..Len(wdata) : 0 <= wdata[k].humidity /\ wdata[k].humidity <= 1000)
    /\ [][Appended =>
            LET range == HumidityRangeOf(NewRecord.season)
                extraMin == IF daily.is_rainy_day THEN 50 ELSE 0
                extraMax == IF daily.is_rainy_day THEN 100 ELSE 0
            IN  /\ 10 * range.min + extraMin <= NewRecord.humidity
                /\ NewRecord.humidity <= Min(1000, 10 * range.max + extraMax)]_vars

\* a rainy hour of the southwest monsoon whose draws exceed 100 is recorded
\* with a humidity of 100
C14_Witness ==
    /\ wpc = "hours"
    /\ daily.is_rainy_day
    /\ daily.season = "southwest"
    /\ Len(wdata) > 24 * wday
    /\ wdata[Len(wdata)].humidity = 1000

\* the hours at which the rain of a rainy day of the season falls
GateHours(season) ==
    IF season \in {"southwest", "northeast"} THEN 6..18 ELSE 12..18

\* C18: rainfall is never negative and follows one rainy-day draw per day:
\* the draw is not changed by the hours of the day, every hour of a day that
\* is not rainy has rainfall 0, and on a rainy day rainfall is nonzero only in
\* the hours 6..18 of the southwest and northeast seasons and 12..18 of the
\* others.
C18_RainfallGate ==
    /\ [](\A k \in 1..Len(wdata) : wdata[k].rainfall >= 0)
    /\ []((wpc = "days" /\ wday >= 1 /\ ~daily.is_rainy_day) =>
            \A k \in (Len(wdata) - 23)..Len(wdata) : wdata[k].rainfall = 0)
    /\ [][wpc = "hours" => daily' = daily]_vars
    /\ [][Appended =>
            /\ ~daily.is_rainy_day => NewRecord.rainfall = 0
            /\ NewRecord.rainfall # 0 => whour \in GateHours(NewRecord.season)
            /\ whour \notin GateHours(NewRecord.season) => NewRecord.rainfall = 0]_vars

\* a day without rain, all of whose hours have rainfall 0, and after it a
\* rainy monsoon day with rain from 6 to 18 o'clock and none before and after
C18_Witness ==
    /\ wpc = "days"
    /\ Len(wdata) = 48
    /\ daily.is_rainy_day
    /\ daily.season \in {"southwest", "northeast"}
    /\ \A k \in 1..24 : wdata[k].rainfall = 0
    /\ \A k \in 25..48 : wdata[k].rainfall > 0 <=> HourIndex(k) \in 6..18

\* the parameters the code selects for a season other than the base profile
MonsoonParameters(season) ==
    [rainfall_prob |-> MONSOON_SEASONS[season].rainfall_probability,
     rainfall_range |-> MONSOON_SEASONS[season].rainfall_intensity,
     wind_range |-> MONSOON_SEASONS[season].wind_speed,
     humidity_range |-> MONSOON_SEASONS[season].humidity]

\* C20: get_season returns southwest, northeast or inter_monsoon for every
\* month, never normal, so no day takes its rainfall probability, rainfall
\* range, wind range or humidity range from the base profile.
C20_NormalUnreachable ==
    /\ \A m \in 1..12 : get_season(m) \in {"southwest", "northeast", "inter_monsoon"}
    /\ \A k \in 1..Len(wdata) : wdata[k].season # "normal"
    /\ wpc = "hours" =>
          /\ daily.season \in {"southwest", "northeast", "inter_monsoon"}
          /\ LET p == MonsoonParameters(daily.season)
             IN  /\ daily.rainfall_prob = p.rainfall_prob
                 /\ daily.rainfall_range = p.rainfall_range
                 /\ daily.wind_range = p.wind_range
                 /\ daily.humidity_range = p.humidity_range
          /\ daily.wind_range # BASE_WEATHER.wind_speed

\* a day of November, the last month the tests of get_season name, has taken
\* the inter-monsoon parameters
C20_Witness ==
    /\ wpc = "hours"
    /\ Month(daily.current_datetime) = 11
    /\ daily.season = "inter_monsoon"
    /\ daily.wind_range = [min |-> 5, max |-> 25]
    /\ Len(wdata) > 24

(***************************************************************************)
(* Further properties of the patient records and of construction.          *)
(***************************************************************************)
\* C15: every patient record has an age in 1..90 and a severity that is Mild,
\* Moderate or Severe.
C15_AgeAndSeverity ==
    Expanding =>
        \A k \in 1 .. Len(data) :
            /\ data[k].age \in 1 .. 90
            /\ data[k].severity \in {"Mild", "Moderate", "Severe"}

\* the expansion has returned records with the least and the greatest age
\* and with each severity
C15_Witness ==
    /\ pc = "done"
    /\ \E k \in 1 .. Len(data) : data[k].age = 1
    /\ \E k \in 1 .. Len(data) : data[k].age = 90
    /\ \A s \in {"Mild", "Moderate", "Severe"} :
          \E k \in 1 .. Len(data) : data[k].severity = s

IsPrefix(s, t) ==
    /\ Len(s) <= Len(t)
    /\ \A k \in 1 .. Len(s) : t[k] = s[k]

\* the change of the truncated infected count on the day the loop is at
DeltaOfDay ==
    PyInt(I[day + 1]) - (IF day > 0 THEN PyInt(I[day]) ELSE self.I0)

\* C16: the expansion only appends: a step keeps the records so far and adds
\* at most one, whose number the counter advances by; a day whose infected
\* count does not rise creates no record and leaves the counter alone.
C16_AppendOnly ==
    /\ [](Expanding =>
            \A d \in DaysDone :
                (PyInt(I[d + 1]) <= (IF d > 0 THEN PyInt(I[d]) ELSE self.I0))
                    => RecordsOfDay(d) = 0)
    /\ [][(pc \in {"loop", "sampling"}) =>
            /\ IsPrefix(data, data')
            /\ Len(data') <= Len(data) + 1
            /\ patient_counter' = patient_counter + (Len(data') - Len(data))
            /\ (pc = "loop" /\ day < Len(I) /\ DeltaOfDay <= 0) =>
                  (/\ data' = data
                   /\ patient_counter' = patient_counter
                   /\ pc' = "loop"
                   /\ day' = day + 1)]_vars

\* the curve fell on a day after a day with records and rose again after it
C16_Witness ==
    /\ pc = "done"
    /\ \E d \in 1 .. Len(I) - 2 :
          /\ I[d + 1] < I[d]
          /\ RecordsOfDay(d) = 0
          /\ RecordsOfDay(d - 1) > 0
          /\ RecordsOfDay(d + 1) > 0

\* C17: a record of day d has a timestamp from d days to d days 23 hours 59
\* minutes after the start, inside the window of duration_days + 1 days, and
\* the days of the records never decrease along the list.
C17_TimestampWindow ==
    /\ [](Expanding =>
            \A k \in 1 .. Len(data) :
                /\ 0 <= data[k].timestamp
                /\ data[k].timestamp < (self.duration_days + 1) * MinutesPerDay
                /\ k > 1 => RecordDay(data[k - 1]) <= RecordDay(data[k]))
    /\ [][(pc = "sampling" /\ data' # data) =>
            LET rec == data'[Len(data')]
            IN  /\ day * MinutesPerDay <= rec.timestamp
                /\ rec.timestamp <= day * MinutesPerDay + 23 * MinutesPerHour + 59]_vars

\* the last day of the run has a record of its last minute, after a record
\* of an earlier day
C17_Witness ==
    /\ pc = "done"
    /\ Len(data) >= 2
    /\ data[Len(data)].timestamp = (self.duration_days + 1) * MinutesPerDay - 1
    /\ RecordDay(data[1]) < RecordDay(data[Len(data)])

\* C19: a constructed simulation has S0 = N - I0 - R0 - E0 with 0 <= S0 <= N,
\* and the initial state of the integration is (S0, E0, I0, R0), no component
\* negative, the four summing to N.
C19_InitialSusceptible ==
    /\ Constructed =>
          /\ self.S0 = self.N - self.I0 - self.R0 - self.E0
          /\ 0 <= self.S0 /\ self.S0 <= self.N
          /\ InitialState(self)
               = <<self.S0 * Scale, self.E0 * Scale, self.I0 * Scale, self.R0 * Scale>>
          /\ \A i \in 1 .. 4 : InitialState(self)[i] >= 0
          /\ SumSeq(InitialState(self)) = self.N * Scale
    /\ (Simulated /\ Len(seir_data) >= 1) =>
          RowState(seir_data[1]) = InitialState(self)

\* a simulation with exposed persons and no susceptible has been integrated
C19_Witness ==
    /\ Simulated
    /\ Len(seir_data) >= 2
    /\ self.E0 > 0
    /\ self.S0 = 0

\* C21: on the trajectory of run_simulation, whose first entry is the
\* configured I0, day 0 creates no record: every record is of a day d >= 1,
\* and a run of duration_days = 0 returns no record.
C21_NoRecordOnDayZero ==
    /\ [](Simulated =>
            /\ Len(I) >= 1 => PyInt(I[1]) = self.I0
            /\ RecordsOfDay(0) = 0
            /\ \A k \in 1 .. Len(data) : RecordDay(data[k]) >= 1
            /\ self.duration_days = 0 => data = <<>>)
    /\ [][(pc = "loop" /\ day = 0 /\ day < Len(I)) =>
            (new_cases' = 0 /\ pc' = "loop" /\ day' = 1 /\ data' = data)]_vars

\* a run that started with an infected person has returned records, none of
\* them of day 0
C21_Witness ==
    /\ pc = "done"
    /\ self.I0 >= 1
    /\ Len(data) >= 1
    /\ RecordsOfDay(0) = 0

\* the records of the days 0..d
RecordsUpTo(d) == Cardinality({k \in 1 .. Len(data) : RecordDay(data[k]) <= d})

\* the greatest truncated value of the curve
TruncatedPeak == CHOOSE m \in {PyInt(I[i]) : i \in 1 .. Len(I)} :
                    \A i \in 1 .. Len(I) : PyInt(I[i]) <= m

\* C22: the records of the days 0..d number at least int(I[d]) - I0, so the
\* returned list has at least the truncated peak of the curve minus I0
\* records.
C22_AtLeastTruncatedRise ==
    Expanding =>
        /\ \A d \in DaysDone : RecordsUpTo(d) >= PyInt(I[d + 1]) - self.I0
        /\ (pc = "done" /\ Len(I) >= 1) => Len(data) >= TruncatedPeak - self.I0

\* the curve fell and rose again, and the list has more records than the
\* truncated peak minus I0
C22_Witness ==
    /\ pc = "done"
    /\ Len(I) >= 3
    /\ \E d \in 1 .. Len(I) - 2 : I[d + 1] < I[d] /\ I[d + 1] < I[d + 2]
    /\ Len(data) > TruncatedPeak - self.I0
    /\ TruncatedPeak - self.I0 > 0

RECURSIVE DaysOfRecords(_, _, _)
\* the days of the records of the days before d, in order, as the curve and
\* I0 alone fix them: each day as many times as its truncated count rose
DaysOfRecords(curve, I0, d) ==
    IF d = 0 THEN <<>>
    ELSE LET rise == PyInt(curve[d]) - (IF d > 1 THEN PyInt(curve[d - 1]) ELSE I0)
         IN  DaysOfRecords(curve, I0, d - 1) \o [i \in 1 .. Max(0, rise) |-> d - 1]

\* C23: the number of records, the day of each and the patient ids are fixed
\* by the curve and I0, whatever the random draws: the list so far agrees
\* with the days computed from the curve alone, the k-th record has the k-th
\* id, and the returned list has exactly those days.
C23_SkeletonFixedByCurve ==
    Expanding =>
        LET days == DaysOfRecords(I, self.I0, Len(I))
        IN  /\ Len(data) <= Len(days)
            /\ \A k \in 1 .. Len(data) :
                  /\ RecordDay(data[k]) = days[k]
                  /\ data[k].patient_id = PatientId(k)
            /\ pc = "done" => Len(data) = Len(days)

\* a returned list whose records differ in every random field
C23_Witness ==
    /\ pc = "done"
    /\ Len(data) >= 2
    /\ \E k1, k2 \in 1 .. Len(data) :
          /\ data[k1].age # data[k2].age
          /\ data[k1].severity # data[k2].severity
          /\ data[k1].timestamp % MinutesPerDay # data[k2].timestamp % MinutesPerDay
          /\ <<data[k1].latitude, data[k1].longitude>>
               # <<data[k2].latitude, data[k2].longitude>>
          /\ RecordDay(data[k1]) = RecordDay(data[k2])
====
